---- MODULE Spec2Model ----
(***************************************************************************)
(* labzen: the numeric core behind the laboratory calculators              *)
(*   calculators/molarity.py      mass / molarity / volume conversion      *)
(*   calculators/assembly.py      Gibson / NEB HiFi assembly volumes       *)
(*   calculators/protein_conc.py  BCA standard curve and sample estimate   *)
(*                                                                         *)
(* Numbers.  The Python code computes on floats.  The model computes on    *)
(* exact decimal-scaled rationals  n/d * 10^e  (the record Num below), so  *)
(* that literals such as 1e-12, 1e9, 0.02 and 1.33 are represented exactly *)
(* and every product, quotient, sum and comparison of the code is carried  *)
(* out in the order the code carries it out.  Rounding error of the float  *)
(* operations is what the documentation calls "floating-point tolerance";  *)
(* it is not modelled.  Division by zero raises ZeroDivisionError as in    *)
(* Python.                                                                 *)
(***************************************************************************)
EXTENDS Integers, Sequences, FiniteSets, TLC

\* pc, call, result: the caller that makes one call at a time.
\* ladder: the module-level list STANDARD_CONCENTRATIONS; heap: the fragment
\* lists the callers hold; frames: the calls of the concurrent callers, each
\* with its arguments and local variables.
VARIABLES pc, call, result, ladder, heap, frames

vars == <<pc, call, result, ladder, heap, frames>>

\* what the core can reach besides its arguments and local variables
shared == <<ladder, heap, frames>>

(***************************************************************************)
(* Exact arithmetic.  A number is [n, d, e] standing for n/d * 10^e in the *)
(* normal form: d > 0, gcd(n, d) = 1, d coprime to 10, 10 does not divide  *)
(* n, and zero is [0, 1, 0].  The normal form is unique, so two numbers    *)
(* are equal as values iff they are equal as records.                      *)
(***************************************************************************)
Abs(i) == IF i < 0 THEN -i ELSE i

RECURSIVE GCD(_, _)
GCD(a, b) == IF b = 0 THEN a ELSE GCD(b, a % b)

RECURSIVE Pow10(_)
Pow10(k) == IF k = 0 THEN 1 ELSE 10 * Pow10(k - 1)

\* Move the factors 2 and 5 of the denominator into the decimal exponent.
RECURSIVE Clear25(_, _, _)
Clear25(n, d, e) ==
    IF d % 2 = 0 THEN Clear25(n * 5, d \div 2, e - 1)
    ELSE IF d % 5 = 0 THEN Clear25(n * 2, d \div 5, e - 1)
    ELSE [n |-> n, d |-> d, e |-> e]

\* Move the factors 10 of the numerator into the decimal exponent.
RECURSIVE Strip10(_)
Strip10(x) ==
    IF x.n % 10 = 0 THEN Strip10([n |-> x.n \div 10, d |-> x.d, e |-> x.e + 1])
    ELSE x

Norm(n, d, e) ==
    IF n = 0 THEN [n |-> 0, d |-> 1, e |-> 0]
    ELSE LET s == IF d < 0 THEN -1 ELSE 1
             g == GCD(Abs(n), Abs(d))
         IN  Strip10(Clear25((s * n) \div g, (s * d) \div g, e))

\* The literal m * 10^k (0.02 is Dec(2, -2); 1e-12 is Dec(1, -12)).
Dec(m, k) == Norm(m, 1, k)

Zero == Dec(0, 0)

IsZero(x) == x.n = 0
IsNeg(x) == x.n < 0
IsPos(x) == x.n > 0

Neg(x) == [x EXCEPT !.n = -x.n]

Mul(x, y) == Norm(x.n * y.n, x.d * y.d, x.e + y.e)

\* x / y for y # 0; the callers test the divisor first, as Python does.
Div(x, y) == Norm(x.n * y.d, x.d * y.n, x.e - y.e)

Add(x, y) ==
    IF IsZero(x) THEN y
    ELSE IF IsZero(y) THEN x
    ELSE LET e == IF x.e < y.e THEN x.e ELSE y.e
         IN  Norm(x.n * Pow10(x.e - e) * y.d + y.n * Pow10(y.e - e) * x.d,
                  x.d * y.d, e)

Sub(x, y) == Add(x, Neg(y))

Lt(x, y) == IsNeg(Sub(x, y))
Le(x, y) == ~IsPos(Sub(x, y))

(***************************************************************************)
(* Outcomes of a call: a returned value or a raised exception.             *)
(***************************************************************************)
Return(v) == [kind |-> "return", value |-> v]

\* raise <exc>(f"<msg>{arg}")
Raise(exc, msg, arg) == [kind |-> exc, msg |-> msg, arg |-> arg]

\* Python float division: x / y raises ZeroDivisionError when y == 0.
TrueDiv(x, y) ==
    IF IsZero(y) THEN Raise("ZeroDivisionError", "float division by zero", "")
    ELSE Return(Div(x, y))

(***************************************************************************)
(* calculators/assembly.py                                                 *)
(***************************************************************************)
avg_bp_molecular_weight == Dec(650, 0)

\* (mutant) the conversion from grams to nanograms taken as 1e7
mass_ng_WrongScale(pmol, length_bp) ==
    Mul(Mul(Mul(pmol, Dec(1, -12)), Mul(length_bp, avg_bp_molecular_weight)),
        Dec(1, 7))

\* mass in ng of `pmol` picomoles of a fragment of `length_bp` base pairs
mass_ng(pmol, length_bp) ==
    Mul(Mul(Mul(pmol, Dec(1, -12)), Mul(length_bp, avg_bp_molecular_weight)),
        Dec(1, 9))

\* (mutant) the molar excess not applied to the inserts
insert_pmol_NoExcess(insert_molar_excess, vector_pmol) ==
    vector_pmol

insert_pmol(insert_molar_excess, vector_pmol) ==
    Mul(insert_molar_excess, vector_pmol)

\* [f for f in fragments if f.is_vector]
vector_list(fragments) == SelectSeq(fragments, LAMBDA f : f.is_vector)

\* (mutant) only the absence of a vector rejected
VectorCountBad_OnlyNone(fragments) == Len(vector_list(fragments)) = 0

VectorCountBad(fragments) == Len(vector_list(fragments)) # 1

\* (mutant) only a zero concentration rejected
ConcentrationBad_OnlyZero(frag) == IsZero(frag.concentration_ng_ul)

ConcentrationBad(frag) == ~IsPos(frag.concentration_ng_ul)

\* A dict is the sequence of its <<key, value>> items in insertion order.
DictHas(dict, key) == \E i \in 1..Len(dict) : dict[i][1] = key

DictGet(dict, key) ==
    dict[CHOOSE i \in 1..Len(dict) : dict[i][1] = key][2]

\* (mutant) an assignment to a key already present is ignored
DictSet_KeepFirst(dict, key, value) ==
    IF DictHas(dict, key) THEN dict ELSE Append(dict, <<key, value>>)

\* dict[key] = value: overwrite in place, or append a new item
DictSet(dict, key, value) ==
    IF DictHas(dict, key)
    THEN [i \in 1..Len(dict) |->
            IF dict[i][1] = key THEN <<key, value>> ELSE dict[i]]
    ELSE Append(dict, <<key, value>>)

DictKeys(dict) == {dict[i][1] : i \in 1..Len(dict)}

\* sum(dict.values())
RECURSIVE SumFrom(_, _, _)
SumFrom(dict, i, acc) ==
    IF i > Len(dict) THEN acc ELSE SumFrom(dict, i + 1, Add(acc, dict[i][2]))

SumValues(dict) == SumFrom(dict, 1, Zero)

\* for frag in fragments: ... ; from position i with the dict built so far
RECURSIVE InsertLoop(_, _, _, _, _)
InsertLoop(fragments, i, fragment_volumes, vector_pmol, insert_molar_excess) ==
    IF i > Len(fragments) THEN Return(fragment_volumes)
    ELSE LET frag == fragments[i]
         IN  IF frag.is_vector
             THEN InsertLoop(fragments, i + 1, fragment_volumes,
                             vector_pmol, insert_molar_excess)
             ELSE LET insert_mass_ng ==
                          mass_ng(insert_pmol(insert_molar_excess, vector_pmol),
                                  frag.length_bp)
                  IN  IF ConcentrationBad(frag)
                      THEN Raise("ValueError",
                                 "Insert concentration must be > 0 ng/uL for ",
                                 frag.name)
                      ELSE InsertLoop(fragments, i + 1,
                               DictSet(fragment_volumes, frag.name,
                                       Div(insert_mass_ng, frag.concentration_ng_ul)),
                               vector_pmol, insert_molar_excess)

\* (mutant) the master mix left out of the water computation
WaterVolume_NoMasterMix(total_reaction_volume, master_mix_volume, sum_fragments_volume) ==
    Sub(total_reaction_volume, sum_fragments_volume)

WaterVolume(total_reaction_volume, master_mix_volume, sum_fragments_volume) ==
    Sub(Sub(total_reaction_volume, master_mix_volume), sum_fragments_volume)

WaterBad(water_volume) == IsNeg(water_volume)

compute_assembly_protocol(fragments, total_reaction_volume, master_mix_concentration, vector_pmol, insert_molar_excess) ==
    IF VectorCountBad(fragments)
    THEN Raise("ValueError", "Exactly one fragment must be flagged as vector.", "")
    ELSE
    LET vector == vector_list(fragments)[1]
        vector_mass_ng == mass_ng(vector_pmol, vector.length_bp)
    IN
    IF ConcentrationBad(vector)
    THEN Raise("ValueError", "Vector concentration must be > 0 ng/uL for ",
               vector.name)
    ELSE
    LET vector_volume_ul == Div(vector_mass_ng, vector.concentration_ng_ul)
        loop == InsertLoop(fragments, 1, <<<<vector.name, vector_volume_ul>>>>,
                           vector_pmol, insert_molar_excess)
    IN
    IF loop.kind # "return" THEN loop
    ELSE
    LET fragment_volumes == loop.value
        sum_fragments_volume == SumValues(fragment_volumes)
        mm == TrueDiv(total_reaction_volume, master_mix_concentration)
    IN
    IF mm.kind # "return" THEN mm
    ELSE
    LET master_mix_volume == mm.value
        water_volume == WaterVolume(total_reaction_volume, master_mix_volume,
                                    sum_fragments_volume)
    IN
    IF WaterBad(water_volume)
    THEN Raise("ValueError",
               "Calculated volumes exceed total reaction volume. Try reducing vector pmol or total fragment count.",
               "")
    ELSE Return([fragment_volumes |-> fragment_volumes,
                 master_mix_volume |-> master_mix_volume,
                 water_volume |-> water_volume,
                 total_reaction_volume |-> total_reaction_volume])

(***************************************************************************)
(* calculators/molarity.py                                                 *)
(***************************************************************************)
\* (mutant) the volume left out of the product
calculate_mass_NoVolume(molecular_weight, concentration_m, volume_l) ==
    Return(Mul(molecular_weight, concentration_m))

calculate_mass(molecular_weight, concentration_m, volume_l) ==
    Return(Mul(Mul(molecular_weight, concentration_m), volume_l))

\* (mutant) the guard the error message describes: "must be greater than 0"
MolarityArgsBad_NonPositive(molecular_weight, volume_l) ==
    ~IsPos(molecular_weight) \/ ~IsPos(volume_l)

\* if molecular_weight == 0 or volume_l == 0
MolarityArgsBad(molecular_weight, volume_l) ==
    IsZero(molecular_weight) \/ IsZero(volume_l)

calculate_molarity(molecular_weight, mass_g, volume_l) ==
    IF MolarityArgsBad(molecular_weight, volume_l)
    THEN Raise("ValueError", "Molecular weight and volume must be greater than 0.", "")
    ELSE TrueDiv(mass_g, Mul(molecular_weight, volume_l))

\* if molecular_weight == 0 or concentration_m == 0
VolumeArgsBad(molecular_weight, concentration_m) ==
    IsZero(molecular_weight) \/ IsZero(concentration_m)

calculate_volume(molecular_weight, mass_g, concentration_m) ==
    IF VolumeArgsBad(molecular_weight, concentration_m)
    THEN Raise("ValueError",
               "Molecular weight and concentration must be greater than 0.", "")
    ELSE TrueDiv(mass_g, Mul(molecular_weight, concentration_m))

(***************************************************************************)
(* calculators/protein_conc.py                                             *)
(***************************************************************************)
STANDARD_CONCENTRATIONS ==
    << Dec(2, 0), Dec(15, -1), Dec(1, 0), Dec(75, -2), Dec(5, -1),
       Dec(25, -2), Dec(125, -3), Dec(25, -3), Zero >>

\* Text is a sequence of one-character strings over digits, ".", "+", "-",
\* the letter "x", and the white space characters " ", "\t" and "\n".
DigitChars == <<"0", "1", "2", "3", "4", "5", "6", "7", "8", "9">>

IsDigit(c) == \E i \in 1..10 : DigitChars[i] = c

DigitValue(c) == (CHOOSE i \in 1..10 : DigitChars[i] = c) - 1

IsSpace(c) == c \in {" ", "\t", "\n"}

\* str.strip()
RECURSIVE LStrip(_)
LStrip(s) == IF s # <<>> /\ IsSpace(Head(s)) THEN LStrip(Tail(s)) ELSE s

RECURSIVE RStrip(_)
RStrip(s) ==
    IF s # <<>> /\ IsSpace(s[Len(s)]) THEN RStrip(SubSeq(s, 1, Len(s) - 1)) ELSE s

Strip(s) == RStrip(LStrip(s))

\* str.splitlines(): a line break ends a line; no empty last line is added
RECURSIVE SplitLinesFrom(_, _, _)
SplitLinesFrom(s, start, acc) ==
    IF start > Len(s) THEN acc
    ELSE LET breaks == {j \in start..Len(s) : s[j] = "\n"}
         IN  IF breaks = {} THEN Append(acc, SubSeq(s, start, Len(s)))
             ELSE LET j == CHOOSE k \in breaks : \A m \in breaks : k <= m
                  IN  SplitLinesFrom(s, j + 1, Append(acc, SubSeq(s, start, j - 1)))

SplitLines(s) == SplitLinesFrom(s, 1, <<>>)

\* str.split(): the maximal runs of non-space characters
RECURSIVE SplitFrom(_, _, _)
SplitFrom(s, start, acc) ==
    LET words == {j \in start..Len(s) : ~IsSpace(s[j])}
    IN  IF words = {} THEN acc
        ELSE LET first == CHOOSE k \in words : \A m \in words : k <= m
                 spaces == {j \in first..Len(s) : IsSpace(s[j])}
                 last == IF spaces = {} THEN Len(s)
                         ELSE (CHOOSE k \in spaces : \A m \in spaces : k <= m) - 1
             IN  SplitFrom(s, last + 1, Append(acc, SubSeq(s, first, last)))

Split(s) == SplitFrom(s, 1, <<>>)

RECURSIVE DigitsValue(_, _)
DigitsValue(digits, acc) ==
    IF digits = <<>> THEN acc
    ELSE DigitsValue(Tail(digits), 10 * acc + DigitValue(Head(digits)))

\* float(token) on decimal literals: [sign] digits [. [digits]] | [sign] . digits
Float(token) ==
    LET signed == token # <<>> /\ Head(token) \in {"+", "-"}
        body == IF signed THEN Tail(token) ELSE token
        dots == {i \in 1..Len(body) : body[i] = "."}
        digits == SelectSeq(body, IsDigit)
        wellFormed == /\ \A i \in 1..Len(body) : IsDigit(body[i]) \/ body[i] = "."
                      /\ Cardinality(dots) <= 1
                      /\ digits # <<>>
        fraction == IF dots = {} THEN 0
                    ELSE Len(body) - (CHOOSE i \in dots : TRUE)
        magnitude == DigitsValue(digits, 0)
    IN  IF ~wellFormed
        THEN Raise("ValueError", "could not convert string to float: ", token)
        ELSE Return(Dec(IF signed /\ Head(token) = "-" THEN -magnitude ELSE magnitude,
                        -fraction))

\* (mutant) one line fewer demanded
TooFewLines_Eight(lines) == Len(lines) < 8

\* if len(lines) < 9
TooFewLines(lines) == Len(lines) < 9

\* lines[:9]
FirstNine(lines) == SubSeq(lines, 1, IF Len(lines) < 9 THEN Len(lines) ELSE 9)

\* (mutant) the mean taken over one replicate only
RowMean_FirstOnly(rep1, rep2) == rep1

\* df[["abs_rep1", "abs_rep2"]].mean(axis=1)
RowMean(rep1, rep2) == Div(Add(rep1, rep2), Dec(2, 0))

\* for i, line in enumerate(lines[:9]): ... ; from line i (1-based) on
RECURSIVE ParseRows(_, _, _)
ParseRows(lines, i, data) ==
    IF i > Len(lines) THEN Return(data)
    ELSE LET parts == Split(lines[i])
         IN  IF Len(parts) < 2
             THEN Raise("ValueError", "Line doesn't have 2 columns of absorbance: ",
                        ToString(i))
             ELSE LET rep1 == Float(parts[1])
                      rep2 == Float(parts[2])
                  IN  IF rep1.kind # "return" THEN rep1
                      ELSE IF rep2.kind # "return" THEN rep2
                      ELSE ParseRows(lines, i + 1,
                               Append(data, [conc_mg_mL |-> STANDARD_CONCENTRATIONS[i],
                                             abs_rep1 |-> rep1.value,
                                             abs_rep2 |-> rep2.value]))

\* df["abs_mean"] = df[["abs_rep1", "abs_rep2"]].mean(axis=1)
WithMean(data) ==
    [i \in 1..Len(data) |->
       [conc_mg_mL |-> data[i].conc_mg_mL,
        abs_rep1 |-> data[i].abs_rep1,
        abs_rep2 |-> data[i].abs_rep2,
        abs_mean |-> RowMean(data[i].abs_rep1, data[i].abs_rep2)]]

\* the rows parsed, or the exception raised while parsing them
Parsed(rows) == IF rows.kind # "return" THEN rows ELSE Return(WithMean(rows.value))

LinesOrError(lines) ==
    IF TooFewLines(lines)
    THEN Raise("ValueError",
               "You must provide at least 9 lines of data for the 9 standard concentrations (A1-A9).",
               "")
    ELSE Parsed(ParseRows(FirstNine(lines), 1, <<>>))

\* The DataFrame is the sequence of its rows.
parse_standard_duplicates(raw_text) == LinesOrError(SplitLines(Strip(raw_text)))

\* (mutant) no clamp
Clamp_None(calc_conc) == calc_conc

\* if calc_conc < 0: calc_conc = 0.0
Clamp(calc_conc) == IF IsNeg(calc_conc) THEN Zero ELSE calc_conc

compute_sample_concentration(abs_val, slope, intercept, dilution_factor) ==
    LET calc_conc == TrueDiv(Sub(abs_val, intercept), slope)
    IN  IF calc_conc.kind # "return" THEN calc_conc
        ELSE Return(Mul(Clamp(calc_conc.value), dilution_factor))

\* sum of a sequence of numbers
RECURSIVE SeqSum(_, _, _)
SeqSum(seq, i, acc) ==
    IF i > Len(seq) THEN acc ELSE SeqSum(seq, i + 1, Add(acc, seq[i]))

\* np.polyfit(x, y, 1) for pairwise different x: the least-squares line, the
\* coefficient of the highest power first
polyfit(x, y) ==
    LET n == Dec(Len(x), 0)
        sx == SeqSum(x, 1, Zero)
        sy == SeqSum(y, 1, Zero)
        sxx == SeqSum([i \in 1..Len(x) |-> Mul(x[i], x[i])], 1, Zero)
        sxy == SeqSum([i \in 1..Len(x) |-> Mul(x[i], y[i])], 1, Zero)
        slope == Div(Sub(Mul(n, sxy), Mul(sx, sy)), Sub(Mul(n, sxx), Mul(sx, sx)))
    IN  <<slope, Div(Sub(sy, Mul(slope, sx)), n)>>

\* standard_df[column].values
Column(standard_df, column) == [i \in 1..Len(standard_df) |-> standard_df[i][column]]

\* (mutant) the two coefficients returned in the other order
FitResult_Swapped(fit) == Return(<<fit[2], fit[1]>>)

\* slope, intercept = fit[0], fit[1]; return slope, intercept
FitResult(fit) == Return(<<fit[1], fit[2]>>)

compute_standard_regression(standard_df) ==
    IF Len(standard_df) < 2
    THEN Raise("ValueError", "Need at least 2 points for regression.", "")
    ELSE FitResult(polyfit(Column(standard_df, "conc_mg_mL"),
                           Column(standard_df, "abs_mean")))

(***************************************************************************)
(* app.py: the pages that call the core.  A run of a page with its compute *)
(* button pressed ends with the messages it displayed and, if an exception *)
(* left the page function, with that exception.                            *)
(***************************************************************************)
Shown(level, content) == [level |-> level, content |-> content]

NoException == [kind |-> "none"]

PageOutcome(shown, uncaught) == [kind |-> "page", shown |-> shown, uncaught |-> uncaught]

\* the statement after a core call that is not inside a try block
SuccessOrPropagate(core) ==
    IF core.kind = "return" THEN PageOutcome(<<Shown("st.success", core.value)>>, NoException)
    ELSE PageOutcome(<<>>, core)

\* try: ... st.success(...) except ValueError as e: st.error(str(e))
SuccessOrCatchValueError(core) ==
    IF core.kind = "return" THEN PageOutcome(<<Shown("st.success", core.value)>>, NoException)
    ELSE IF core.kind = "ValueError" THEN PageOutcome(<<Shown("st.error", core.msg)>>, NoException)
    ELSE PageOutcome(<<>>, core)

\* the first value is the concentration (Calculate Mass) or the mass, the
\* second the volume or (Calculate Volume) the concentration, each with the
\* factor of its unit
show_molarity_calculator(calc_mode, molecular_weight, first_val, first_factor, second_val, second_factor) ==
    IF ~IsPos(molecular_weight)
    THEN PageOutcome(<<Shown("st.error", "Molecular weight must be greater than 0.")>>,
                     NoException)
    ELSE LET first == Mul(first_val, first_factor)
             second == Mul(second_val, second_factor)
         IN  IF calc_mode = "Calculate Mass"
             THEN SuccessOrPropagate(calculate_mass(molecular_weight, first, second))
             ELSE IF calc_mode = "Calculate Molarity"
             THEN SuccessOrPropagate(calculate_molarity(molecular_weight, first, second))
             ELSE SuccessOrPropagate(calculate_volume(molecular_weight, first, second))

show_gibson_assembly_calculator(fragments, total_rxn_vol, master_mix_conc, vector_pmol, insert_excess) ==
    SuccessOrCatchValueError(
        compute_assembly_protocol(fragments, total_rxn_vol, master_mix_conc,
                                  vector_pmol, insert_excess))

\* numpy.float64 arithmetic of the BCA page: slope and intercept come from
\* np.polyfit, and a float64 division by zero gives inf, -inf or nan (d = 0
\* below) with a warning instead of raising.
Inf == [n |-> 1, d |-> 0, e |-> 0]
NegInf == [n |-> -1, d |-> 0, e |-> 0]
NaN == [n |-> 0, d |-> 0, e |-> 0]

IsFinite(x) == x.d # 0

Float64Div(x, y) ==
    IF ~IsZero(y) THEN Div(x, y)
    ELSE IF IsPos(x) THEN Inf ELSE IF IsNeg(x) THEN NegInf ELSE NaN

Float64Mul(x, y) ==
    IF IsFinite(x) /\ IsFinite(y) THEN Mul(x, y)
    ELSE IF x = NaN \/ y = NaN \/ x.n = 0 \/ y.n = 0 THEN NaN
    ELSE IF (x.n < 0) = (y.n < 0) THEN Inf ELSE NegInf

Float64Add(x, y) ==
    IF IsFinite(x) /\ IsFinite(y) THEN Add(x, y)
    ELSE IF x = NaN \/ y = NaN THEN NaN
    ELSE IF ~IsFinite(x) /\ ~IsFinite(y) /\ x # y THEN NaN
    ELSE IF IsFinite(x) THEN y ELSE x

\* compute_sample_concentration on float64 operands
compute_sample_concentration_float64(abs_val, slope, intercept, dilution_factor) ==
    LET calc_conc == Float64Div(Sub(abs_val, intercept), slope)
    IN  Float64Mul(IF calc_conc.n < 0 THEN Zero ELSE calc_conc, dilution_factor)

compute_total_yield(concentration_mg_mL, total_volume_uL) ==
    Float64Mul(concentration_mg_mL, Div(total_volume_uL, Dec(1000, 0)))

\* computed_concs: one concentration per dilution with a positive absorbance
RECURSIVE ComputedConcs(_, _, _, _, _)
ComputedConcs(dilutions_data, i, slope, intercept, acc) ==
    IF i > Len(dilutions_data) THEN acc
    ELSE ComputedConcs(dilutions_data, i + 1, slope, intercept,
             IF IsPos(dilutions_data[i][2])
             THEN Append(acc, compute_sample_concentration_float64(
                                  dilutions_data[i][2], slope, intercept,
                                  dilutions_data[i][1]))
             ELSE acc)

RECURSIVE Float64Sum(_, _, _)
Float64Sum(seq, i, acc) ==
    IF i > Len(seq) THEN acc ELSE Float64Sum(seq, i + 1, Float64Add(acc, seq[i]))

\* if st.button("Compute Protein Concentration & Yield"): ... with a curve
YieldSection(fit, dilutions_data, total_volume_uL) ==
    LET computed_concs == ComputedConcs(dilutions_data, 1, fit[1], fit[2], <<>>)
    IN  IF Len(computed_concs) = 0
        THEN <<Shown("st.error", "No positive absorbance readings were provided.")>>
        ELSE LET total == Float64Sum(computed_concs, 1, Zero)
                 avg_conc == IF IsFinite(total)
                             THEN Div(total, Dec(Len(computed_concs), 0))
                             ELSE total
             IN  <<Shown("st.success",
                         <<avg_conc, compute_total_yield(avg_conc, total_volume_uL)>>)>>

NoCurve == <<Shown("st.error", "Cannot compute: standard curve not established.")>>

\* try: parse, regression, chart  except ValueError as ve: st.error(str(ve));
\* then the button section
CurveSection(parsed, dilutions_data, total_volume_uL) ==
    IF parsed.kind = "ValueError"
    THEN PageOutcome(<<Shown("st.error", parsed.msg)>> \o NoCurve, NoException)
    ELSE IF parsed.kind # "return" THEN PageOutcome(<<>>, parsed)
    ELSE PageOutcome(<<Shown("st.dataframe", parsed.value[1]),
                       Shown("st.write", parsed.value[2])>>
                     \o YieldSection(parsed.value[2], dilutions_data, total_volume_uL),
                     NoException)

\* standard_df and (slope, intercept), or the first exception raised
ParseAndFit(parsed) ==
    IF parsed.kind # "return" THEN parsed
    ELSE LET fit == compute_standard_regression(parsed.value)
         IN  IF fit.kind # "return" THEN fit ELSE Return(<<parsed.value, fit.value>>)

show_bca_protein_calculator(raw_std_text, dilutions_data, total_volume_uL) ==
    IF Strip(raw_std_text) = <<>> THEN PageOutcome(NoCurve, NoException)
    ELSE CurveSection(ParseAndFit(parse_standard_duplicates(raw_std_text)),
                      dilutions_data, total_volume_uL)

(***************************************************************************)
(* Inputs of the assembly planner.                                         *)
(***************************************************************************)
MaxFragments == 3

Fragment(name, length_bp, concentration_ng_ul, is_vector) ==
    [name |-> name, length_bp |-> length_bp,
     concentration_ng_ul |-> concentration_ng_ul, is_vector |-> is_vector]

\* Vectors and inserts with positive, zero and negative stock concentrations;
\* an insert that carries the vector's name; a second vector.
FragmentPool ==
    { Fragment("V", Dec(3000, 0), Dec(50, 0), TRUE),
      Fragment("V", Dec(3000, 0), Zero, TRUE),
      Fragment("W", Dec(5000, 0), Dec(-50, 0), TRUE),
      Fragment("I", Dec(500, 0), Dec(20, 0), FALSE),
      Fragment("I", Dec(1000, 0), Zero, FALSE),
      Fragment("J", Dec(1000, 0), Dec(20, 0), FALSE),
      Fragment("J", Dec(500, 0), Dec(-20, 0), FALSE),
      Fragment("V", Dec(500, 0), Dec(20, 0), FALSE) }

FragmentLists == UNION {[1..k -> FragmentPool] : k \in 0..MaxFragments}

TotalVolumes == {Dec(10, 0), Dec(286, -2), Dec(1, 0)}
MasterMixConcentrations == {Zero, Dec(133, -2), Dec(2, 0)}
VectorPmols == {Dec(2, -2), Dec(2, -1)}
InsertExcesses == {Dec(2, 0), Dec(3, 0)}

(***************************************************************************)
(* Inputs of the molarity converter and of the sample estimate.            *)
(***************************************************************************)
\* molecular weights, masses, concentrations and volumes: -2, 0, 0.5, 3, 58.4
MolarityValues == {Dec(-2, 0), Zero, Dec(5, -1), Dec(3, 0), Dec(584, -1)}

Absorbances == {Dec(5, -2), Dec(1, -1), Dec(6, -1)}
Slopes == {Dec(-5, -1), Zero, Dec(5, -1)}
Intercepts == {Dec(1, -1), Dec(3, -1)}
DilutionFactors == {Dec(-2, 0), Zero, Dec(1, 0), Dec(10, 0)}

(***************************************************************************)
(* Pasted standard-curve text.  A paste is a sequence of lines; each line  *)
(* is recorded with its text and with what it holds: the number of its     *)
(* tokens, whether the first and the second are decimal numbers, and their *)
(* values.  The text handed to the parser is the lines joined by "\n".     *)
(***************************************************************************)
MaxLines == 10

Line(text, tokens, numeric1, numeric2, rep1, rep2) ==
    [text |-> text, tokens |-> tokens, numeric1 |-> numeric1,
     numeric2 |-> numeric2, rep1 |-> rep1, rep2 |-> rep2]

\* the well-formed line "<i> <i+1>.5" (digits taken modulo 10)
BaseLine(i) ==
    Line(<<DigitChars[(i % 10) + 1], " ", DigitChars[((i + 1) % 10) + 1], ".", "5">>,
         2, TRUE, TRUE, Dec(i % 10, 0), Dec(((i + 1) % 10) * 10 + 5, -1))

BlankLine == Line(<<>>, 0, FALSE, FALSE, Zero, Zero)

LineSamples ==
    { Line(<<"2", "\t", "1", ".", "5">>, 2, TRUE, TRUE, Dec(2, 0), Dec(15, -1)),
      Line(<<"-", "1", " ", ".", "5">>, 2, TRUE, TRUE, Dec(-1, 0), Dec(5, -1)),
      Line(<<"1", " ", "2", " ", "x">>, 3, TRUE, TRUE, Dec(1, 0), Dec(2, 0)),
      Line(<<" ", "0", ".", "2", "5", " ", " ", "3", ".", " ">>, 2, TRUE, TRUE,
           Dec(25, -2), Dec(3, 0)),
      Line(<<"7">>, 1, TRUE, FALSE, Dec(7, 0), Zero),
      BlankLine,
      Line(<<" ", "\t">>, 0, FALSE, FALSE, Zero, Zero),
      Line(<<"x", " ", "1">>, 2, FALSE, TRUE, Zero, Dec(1, 0)),
      Line(<<"1", " ", "1", ".", "2", ".", "3">>, 2, TRUE, FALSE, Dec(1, 0), Zero) }

RECURSIVE JoinLines(_, _, _)
JoinLines(lines, i, acc) ==
    IF i > Len(lines) THEN acc
    ELSE JoinLines(lines, i + 1,
                   (IF i = 1 THEN acc ELSE Append(acc, "\n")) \o lines[i].text)

\* n lines, all base lines but for the samples s1 at p1 and s2 at p2 (0: none)
Paste(n, p1, s1, p2, s2) ==
    [i \in 1..n |-> IF i = p1 THEN s1 ELSE IF i = p2 THEN s2 ELSE BaseLine(i)]

\* the choices (n, p1, s1, p2, s2) that give pairwise different pastes
PasteChoice(n, p1, s1, p2, s2) ==
    /\ p2 <= n
    /\ p1 = 0 \/ p1 < p2
    /\ p1 = 0 => s1 = BlankLine
    /\ p2 = 0 => (p1 = 0 /\ s2 = BlankLine)

(***************************************************************************)
(* Standard curves handed to the regression: the first n ladder points     *)
(* with mean absorbances on a line, and short curves with scattered means. *)
(***************************************************************************)
MaxScattered == 3

LineSlopes == {Dec(-5, -1), Zero, Dec(5, -1), Dec(12, -1)}
LineIntercepts == {Dec(-1, -1), Zero, Dec(5, -2)}
ScatteredMeans == {Zero, Dec(1, -1), Dec(1, 0)}

\* the rows for the first Len(means) ladder points with the given means
CurveOf(means) ==
    [i \in 1..Len(means) |->
       [conc_mg_mL |-> STANDARD_CONCENTRATIONS[i], abs_rep1 |-> means[i],
        abs_rep2 |-> means[i], abs_mean |-> means[i]]]

LinearCurves ==
    { CurveOf([i \in 1..n |-> Add(Mul(a, STANDARD_CONCENTRATIONS[i]), b)]) :
        n \in 0..9, a \in LineSlopes, b \in LineIntercepts }

ScatteredCurves ==
    UNION { {CurveOf(means) : means \in [1..n -> ScatteredMeans]} :
              n \in 0..MaxScattered }

(***************************************************************************)
(* What the widgets of the pages allow.                                    *)
(***************************************************************************)
CalcModes == {"Calculate Mass", "Calculate Molarity", "Calculate Volume"}

\* "Custom" (minimum 0.0, default 0.0) or a reagent of the list (NaCl)
PageMolecularWeights == {Zero, Dec(5844, -2)}

\* number inputs with min_value = 0.0
PageValues == {Zero, Dec(1, 0), Dec(25, -1)}

\* M, mM, uM, nM; L, mL, uL; g, mg, ug
UnitFactors(calc_mode, position) ==
    IF (calc_mode = "Calculate Mass" /\ position = 1)
         \/ (calc_mode = "Calculate Volume" /\ position = 2)
    THEN {Dec(1, 0), Dec(1, -3), Dec(1, -6), Dec(1, -9)}
    ELSE {Dec(1, 0), Dec(1, -3), Dec(1, -6)}

\* length: min_value = 1.0; concentration: min_value = 0.0
PageFragmentPool ==
    {f \in FragmentPool : ~IsNeg(f.concentration_ng_ul) /\ Le(Dec(1, 0), f.length_bp)}

PageFragmentLists == UNION {[1..k -> PageFragmentPool] : k \in 1..MaxFragments}

\* st.selectbox("Master Mix Concentration (X):", [1.33, 2.0])
PageMasterMixConcentrations == {Dec(133, -2), Dec(2, 0)}

\* nine rows on absorbance = 2 * concentration
ExactPaste ==
    <<"4", " ", "4", "\n", "3", " ", "3", "\n", "2", " ", "2", "\n", "1",
      ".", "5", " ", "1", ".", "5", "\n", "1", " ", "1", "\n", "0", ".", "5",
      " ", "0", ".", "5", "\n", "0", ".", "2", "5", " ", "0", ".", "2", "5",
      "\n", "0", ".", "0", "5", " ", "0", ".", "0", "5", "\n", "0", " ", "0">>

\* nine equal rows: a flat curve
FlatPaste ==
    <<"1", " ", "1", "\n", "1", " ", "1", "\n", "1", " ", "1", "\n", "1",
    " ", "1", "\n", "1", " ", "1", "\n", "1", " ", "1", "\n", "1", " ", "1",
    "\n", "1", " ", "1", "\n", "1", " ", "1">>

\* eight rows only
ShortPaste ==
    <<"4", " ", "4", "\n", "3", " ", "3", "\n", "2", " ", "2", "\n", "1",
      ".", "5", " ", "1", ".", "5", "\n", "1", " ", "1", "\n", "0", ".", "5",
      " ", "0", ".", "5", "\n", "0", ".", "2", "5", " ", "0", ".", "2", "5",
      "\n", "0", ".", "0", "5", " ", "0", ".", "0", "5">>

\* a non-numeric token on the fifth row
BadTokenPaste ==
    <<"4", " ", "4", "\n", "3", " ", "3", "\n", "2", " ", "2", "\n", "1",
      ".", "5", " ", "1", ".", "5", "\n", "x", " ", "1", "\n", "0", ".", "5",
      " ", "0", ".", "5", "\n", "0", ".", "2", "5", " ", "0", ".", "2", "5",
      "\n", "0", ".", "0", "5", " ", "0", ".", "0", "5", "\n", "0", " ", "0">>

\* white space only
BlankPaste ==
    <<" ", "\n">>

PagePastes == {<<>>, BlankPaste, ShortPaste, BadTokenPaste, ExactPaste, FlatPaste}

\* (dilution factor >= 1, absorbance >= 0)
PageDilutions ==
    {Dec(1, 0), Dec(25, -1)} \X {Zero, Dec(5, -2), Dec(55, -2), Dec(1, 0)}

PageTotalVolumes == {Dec(1000, 0), Zero}

(***************************************************************************)
(* The caller: one call at a time, each on its own arguments.               *)
(***************************************************************************)
NoCall == [op |-> "none"]
NoResult == [kind |-> "none"]

\* concurrent callers, and the fragment lists they may hold
Procs == {"p1", "p2"}
ObjIds == {"a", "b"}

NoObject == [live |-> FALSE, val |-> <<>>]
NoFrame == [pc |-> "idle"]

Init ==
    /\ pc = "idle"
    /\ call = NoCall
    /\ result = NoResult
    /\ ladder = STANDARD_CONCENTRATIONS
    /\ heap = [o \in ObjIds |-> NoObject]
    /\ frames = [p \in Procs |-> NoFrame]

CallAssembly ==
    /\ pc = "idle"
    /\ \E fragments \in FragmentLists, total \in TotalVolumes,
          mmc \in MasterMixConcentrations, pmol \in VectorPmols,
          excess \in InsertExcesses :
          /\ call' = [op |-> "compute_assembly_protocol",
                      fragments |-> fragments,
                      total_reaction_volume |-> total,
                      master_mix_concentration |-> mmc,
                      vector_pmol |-> pmol,
                      insert_molar_excess |-> excess]
          /\ result' = compute_assembly_protocol(fragments, total, mmc, pmol, excess)
    /\ pc' = "done"
    /\ UNCHANGED shared

CallMass ==
    /\ pc = "idle"
    /\ \E mw \in MolarityValues, c \in MolarityValues, v \in MolarityValues :
          /\ call' = [op |-> "calculate_mass", molecular_weight |-> mw,
                      concentration_m |-> c, volume_l |-> v]
          /\ result' = calculate_mass(mw, c, v)
    /\ pc' = "done"
    /\ UNCHANGED shared

CallMolarity ==
    /\ pc = "idle"
    /\ \E mw \in MolarityValues, m \in MolarityValues, v \in MolarityValues :
          /\ call' = [op |-> "calculate_molarity", molecular_weight |-> mw,
                      mass_g |-> m, volume_l |-> v]
          /\ result' = calculate_molarity(mw, m, v)
    /\ pc' = "done"
    /\ UNCHANGED shared

CallVolume ==
    /\ pc = "idle"
    /\ \E mw \in MolarityValues, m \in MolarityValues, c \in MolarityValues :
          /\ call' = [op |-> "calculate_volume", molecular_weight |-> mw,
                      mass_g |-> m, concentration_m |-> c]
          /\ result' = calculate_volume(mw, m, c)
    /\ pc' = "done"
    /\ UNCHANGED shared

CallParse ==
    /\ pc = "idle"
    /\ \E n \in 0..MaxLines, p1 \in 0..MaxLines, p2 \in 0..MaxLines,
          s1 \in LineSamples, s2 \in LineSamples :
          /\ PasteChoice(n, p1, s1, p2, s2)
          /\ LET pasted == Paste(n, p1, s1, p2, s2)
                 raw_text == JoinLines(pasted, 1, <<>>)
             IN  /\ call' = [op |-> "parse_standard_duplicates",
                             raw_text |-> raw_text, pasted |-> pasted]
                 /\ result' = parse_standard_duplicates(raw_text)
    /\ pc' = "done"
    /\ UNCHANGED shared

CallSampleConcentration ==
    /\ pc = "idle"
    /\ \E a \in Absorbances, slope \in Slopes, intercept \in Intercepts,
          df \in DilutionFactors :
          /\ call' = [op |-> "compute_sample_concentration", abs_val |-> a,
                      slope |-> slope, intercept |-> intercept,
                      dilution_factor |-> df]
          /\ result' = compute_sample_concentration(a, slope, intercept, df)
    /\ pc' = "done"
    /\ UNCHANGED shared

CallRegression ==
    /\ pc = "idle"
    /\ \E standard_df \in LinearCurves \cup ScatteredCurves :
          /\ call' = [op |-> "compute_standard_regression",
                      standard_df |-> standard_df]
          /\ result' = compute_standard_regression(standard_df)
    /\ pc' = "done"
    /\ UNCHANGED shared

\* The caller takes the outcome; nothing of the call remains.
Finish ==
    /\ pc = "done"
    /\ pc' = "idle"
    /\ call' = NoCall
    /\ result' = NoResult
    /\ UNCHANGED shared

Next ==
    \/ CallAssembly
    \/ CallMass
    \/ CallMolarity
    \/ CallVolume
    \/ CallParse
    \/ CallSampleConcentration
    \/ CallRegression
    \/ Finish

Spec == Init /\ [][Next]_vars

(***************************************************************************)
(* Runs of the pages with the compute button pressed.                      *)
(***************************************************************************)
ShowMolarity ==
    /\ pc = "idle"
    /\ \E calc_mode \in CalcModes, mw \in PageMolecularWeights,
          v1 \in PageValues, v2 \in PageValues :
          \E f1 \in UnitFactors(calc_mode, 1), f2 \in UnitFactors(calc_mode, 2) :
             /\ call' = [op |-> "show_molarity_calculator", calc_mode |-> calc_mode,
                         molecular_weight |-> mw, first_val |-> v1,
                         first_factor |-> f1, second_val |-> v2,
                         second_factor |-> f2]
             /\ result' = show_molarity_calculator(calc_mode, mw, v1, f1, v2, f2)
    /\ pc' = "done"
    /\ UNCHANGED shared

ShowGibson ==
    /\ pc = "idle"
    /\ \E fragments \in PageFragmentLists, total \in TotalVolumes,
          mmc \in PageMasterMixConcentrations, pmol \in VectorPmols,
          excess \in InsertExcesses :
          /\ call' = [op |-> "show_gibson_assembly_calculator",
                      fragments |-> fragments, total_rxn_vol |-> total,
                      master_mix_conc |-> mmc, vector_pmol |-> pmol,
                      insert_excess |-> excess]
          /\ result' = show_gibson_assembly_calculator(fragments, total, mmc,
                                                       pmol, excess)
    /\ pc' = "done"
    /\ UNCHANGED shared

ShowBca ==
    /\ pc = "idle"
    /\ \E raw_std_text \in PagePastes,
          dilutions_data \in [1..3 -> PageDilutions],
          total_volume_uL \in PageTotalVolumes :
          /\ call' = [op |-> "show_bca_protein_calculator",
                      raw_std_text |-> raw_std_text,
                      dilutions_data |-> dilutions_data,
                      total_volume_uL |-> total_volume_uL]
          /\ result' = show_bca_protein_calculator(raw_std_text, dilutions_data,
                                                   total_volume_uL)
    /\ pc' = "done"
    /\ UNCHANGED shared

NextApp == ShowMolarity \/ ShowGibson \/ ShowBca \/ Finish

SpecApp == Init /\ [][NextApp]_vars

(***************************************************************************)
(* Concurrent callers.  A call of compute_assembly_protocol or of           *)
(* parse_standard_duplicates runs in steps, one for each part of the        *)
(* function between two reads of what it shares with the other calls: the   *)
(* fragment list it was passed (two calls may be passed the same list) and  *)
(* the module-level ladder.  Local variables live in the frame of the call. *)
(* The field args_at_call records the arguments as they were at the call.   *)
(***************************************************************************)
\* the lists a caller builds
CallerLists ==
    { <<Fragment("V", Dec(3000, 0), Dec(50, 0), TRUE),
        Fragment("I", Dec(500, 0), Dec(20, 0), FALSE)>>,
      <<Fragment("V", Dec(500, 0), Dec(20, 0), FALSE),
        Fragment("V", Dec(3000, 0), Dec(50, 0), TRUE)>>,
      <<Fragment("V", Dec(3000, 0), Dec(50, 0), TRUE),
        Fragment("I", Dec(1000, 0), Zero, FALSE)>>,
      <<Fragment("I", Dec(500, 0), Dec(20, 0), FALSE)>> }

\* (total_reaction_volume, master_mix_concentration)
CallerVolumes == {<<Dec(10, 0), Dec(2, 0)>>, <<Dec(1, 0), Dec(2, 0)>>, <<Dec(10, 0), Zero>>}

CallerPastes == {ExactPaste, ShortPaste, BadTokenPaste}

\* (molecular_weight, mass_g, volume_l)
CallerMolarityArgs == {<<Dec(584, -1), Dec(3, 0), Dec(5, -1)>>, <<Dec(584, -1), Dec(3, 0), Zero>>}

\* (abs_val, slope, intercept, dilution_factor)
CallerSampleArgs == {<<Dec(6, -1), Dec(5, -1), Dec(1, -1), Dec(10, 0)>>, <<Dec(6, -1), Zero, Dec(1, -1), Dec(1, 0)>>}

Done(frame, outcome) == [frame EXCEPT !.pc = "done", !.outcome = outcome]

\* a caller builds a fragment list
NewList(o) ==
    /\ ~heap[o].live
    /\ \E fragments \in CallerLists : heap' = [heap EXCEPT ![o] = [live |-> TRUE, val |-> fragments]]
    /\ UNCHANGED <<pc, call, result, ladder, frames>>

BeginAssembly(p) ==
    /\ frames[p].pc = "idle"
    /\ \E o \in ObjIds, v \in CallerVolumes :
          /\ heap[o].live
          /\ frames' = [frames EXCEPT ![p] =
                [pc |-> "vector_list", op |-> "compute_assembly_protocol",
                 fragments |-> o, total_reaction_volume |-> v[1],
                 master_mix_concentration |-> v[2],
                 vector_pmol |-> Dec(2, -2), insert_molar_excess |-> Dec(2, 0),
                 args_at_call |-> heap[o].val, locals |-> <<>>, outcome |-> NoResult]]
    /\ UNCHANGED <<pc, call, result, ladder, heap>>

\* lines 37-60: the vector is looked up, checked and entered in the dict
AssemblyVector(p) ==
    /\ frames[p].pc = "vector_list"
    /\ LET frame == frames[p]
           fragments == heap[frame.fragments].val
       IN  frames' = [frames EXCEPT ![p] =
             IF VectorCountBad(fragments)
             THEN Done(frame, Raise("ValueError",
                                    "Exactly one fragment must be flagged as vector.", ""))
             ELSE LET vector == vector_list(fragments)[1]
                  IN  IF ConcentrationBad(vector)
                      THEN Done(frame, Raise("ValueError",
                                             "Vector concentration must be > 0 ng/uL for ",
                                             vector.name))
                      ELSE [frame EXCEPT !.pc = "for",
                              !.locals = [i |-> 1,
                                          fragment_volumes |->
                                            <<<<vector.name,
                                                Div(mass_ng(frame.vector_pmol, vector.length_bp),
                                                    vector.concentration_ng_ul)>>>>]]]
    /\ UNCHANGED <<pc, call, result, ladder, heap>>

\* (mutant) the iteration takes the fragment out of the caller's list
Iterate_Pop(fragments, i) == [frag |-> fragments[1], fragments |-> Tail(fragments)]

\* for frag in fragments: the fragment at position i; the list stays as it is
Iterate(fragments, i) == [frag |-> fragments[i], fragments |-> fragments]

\* lines 62-75: one iteration of the loop, or its end
AssemblyFor(p) ==
    /\ frames[p].pc = "for"
    /\ LET frame == frames[p]
           o == frame.fragments
           i == frame.locals.i
       IN  IF i > Len(heap[o].val)
           THEN /\ frames' = [frames EXCEPT ![p] = [frame EXCEPT !.pc = "water"]]
                /\ heap' = heap
           ELSE LET it == Iterate(heap[o].val, i)
                    frag == it.frag
                    insert_mass_ng ==
                        mass_ng(insert_pmol(frame.insert_molar_excess, frame.vector_pmol),
                                frag.length_bp)
                IN  /\ heap' = [heap EXCEPT ![o].val = it.fragments]
                    /\ frames' = [frames EXCEPT ![p] =
                         IF frag.is_vector THEN [frame EXCEPT !.locals.i = i + 1]
                         ELSE IF ConcentrationBad(frag)
                         THEN Done(frame, Raise("ValueError",
                                                "Insert concentration must be > 0 ng/uL for ",
                                                frag.name))
                         ELSE [frame EXCEPT !.locals =
                                 [i |-> i + 1,
                                  fragment_volumes |->
                                    DictSet(frame.locals.fragment_volumes, frag.name,
                                            Div(insert_mass_ng, frag.concentration_ng_ul))]]]
    /\ UNCHANGED <<pc, call, result, ladder>>

\* lines 78-96: sum, master mix, water, result
AssemblyWater(p) ==
    /\ frames[p].pc = "water"
    /\ LET frame == frames[p]
           fragment_volumes == frame.locals.fragment_volumes
           mm == TrueDiv(frame.total_reaction_volume, frame.master_mix_concentration)
           water_volume == WaterVolume(frame.total_reaction_volume, mm.value,
                                       SumValues(fragment_volumes))
       IN  frames' = [frames EXCEPT ![p] =
             IF mm.kind # "return" THEN Done(frame, mm)
             ELSE IF WaterBad(water_volume)
             THEN Done(frame, Raise("ValueError",
                    "Calculated volumes exceed total reaction volume. Try reducing vector pmol or total fragment count.",
                    ""))
             ELSE Done(frame, Return([fragment_volumes |-> fragment_volumes,
                                      master_mix_volume |-> mm.value,
                                      water_volume |-> water_volume,
                                      total_reaction_volume |-> frame.total_reaction_volume]))]
    /\ UNCHANGED <<pc, call, result, ladder, heap>>

BeginParse(p) ==
    /\ frames[p].pc = "idle"
    /\ \E raw_text \in CallerPastes :
          frames' = [frames EXCEPT ![p] =
             [pc |-> "splitlines", op |-> "parse_standard_duplicates",
              raw_text |-> raw_text, locals |-> <<>>, outcome |-> NoResult]]
    /\ UNCHANGED <<pc, call, result, ladder, heap>>

\* lines 40-44
ParseLines(p) ==
    /\ frames[p].pc = "splitlines"
    /\ LET frame == frames[p]
           lines == SplitLines(Strip(frame.raw_text))
       IN  frames' = [frames EXCEPT ![p] =
             IF TooFewLines(lines)
             THEN Done(frame, Raise("ValueError",
                    "You must provide at least 9 lines of data for the 9 standard concentrations (A1-A9).",
                    ""))
             ELSE [frame EXCEPT !.pc = "rows",
                     !.locals = [lines |-> FirstNine(lines), i |-> 1, data |-> <<>>]]]
    /\ UNCHANGED <<pc, call, result, ladder, heap>>

\* lines 45-54: one row, with the concentration read from the module-level list
ParseRow(p) ==
    /\ frames[p].pc = "rows"
    /\ LET frame == frames[p]
           i == frame.locals.i
           parts == Split(frame.locals.lines[i])
           rep1 == Float(parts[1])
           rep2 == Float(parts[2])
       IN  frames' = [frames EXCEPT ![p] =
             IF i > Len(frame.locals.lines) THEN [frame EXCEPT !.pc = "mean"]
             ELSE IF Len(parts) < 2
             THEN Done(frame, Raise("ValueError",
                                    "Line doesn't have 2 columns of absorbance: ",
                                    ToString(i)))
             ELSE IF rep1.kind # "return" THEN Done(frame, rep1)
             ELSE IF rep2.kind # "return" THEN Done(frame, rep2)
             ELSE [frame EXCEPT !.locals.i = i + 1,
                     !.locals.data = Append(@, [conc_mg_mL |-> ladder[i],
                                                abs_rep1 |-> rep1.value,
                                                abs_rep2 |-> rep2.value])]]
    /\ UNCHANGED <<pc, call, result, ladder, heap>>

\* lines 56-58
ParseMean(p) ==
    /\ frames[p].pc = "mean"
    /\ frames' = [frames EXCEPT ![p] = Done(@, Return(WithMean(@.locals.data)))]
    /\ UNCHANGED <<pc, call, result, ladder, heap>>

\* the functions that read nothing but their arguments run in one step
CallArithmetic(p) ==
    /\ frames[p].pc = "idle"
    /\ \/ \E a \in CallerMolarityArgs :
             frames' = [frames EXCEPT ![p] =
                [pc |-> "done", op |-> "calculate_molarity", args |-> a,
                 outcome |-> calculate_molarity(a[1], a[2], a[3])]]
       \/ \E a \in CallerSampleArgs :
             frames' = [frames EXCEPT ![p] =
                [pc |-> "done", op |-> "compute_sample_concentration", args |-> a,
                 outcome |-> compute_sample_concentration(a[1], a[2], a[3], a[4])]]
    /\ UNCHANGED <<pc, call, result, ladder, heap>>

\* the call returns or raises: its frame is gone
EndCall(p) ==
    /\ frames[p].pc = "done"
    /\ frames' = [frames EXCEPT ![p] = NoFrame]
    /\ UNCHANGED <<pc, call, result, ladder, heap>>

NextConcurrent ==
    \/ \E o \in ObjIds : NewList(o)
    \/ \E p \in Procs :
          \/ BeginAssembly(p)
          \/ AssemblyVector(p)
          \/ AssemblyFor(p)
          \/ AssemblyWater(p)
          \/ BeginParse(p)
          \/ ParseLines(p)
          \/ ParseRow(p)
          \/ ParseMean(p)
          \/ CallArithmetic(p)
          \/ EndCall(p)

SpecConcurrent == Init /\ [][NextConcurrent]_vars

(***************************************************************************)
(* Properties of the assembly planner.  The right-hand sides below are     *)
(* written from the documentation of the planner, not with the operators   *)
(* that model its code.                                                    *)
(***************************************************************************)
IsAssemblyCall == pc = "done" /\ call.op = "compute_assembly_protocol"

InvalidConfiguration(r) == r.kind = "ValueError"

\* the positions of the fragments flagged as vector
VectorPositions(fragments) == {i \in 1..Len(fragments) : fragments[i].is_vector}

OneVector(fragments) == Cardinality(VectorPositions(fragments)) = 1

TheVector(fragments) == fragments[CHOOSE i \in VectorPositions(fragments) : TRUE]

NonPositive(fragments) ==
    {i \in 1..Len(fragments) : fragments[i].concentration_ng_ul.n <= 0}

DistinctNames(fragments) ==
    \A i, j \in 1..Len(fragments) : fragments[i].name = fragments[j].name => i = j

\* pmol * 1e-12 mol * (length_bp * 650 g/mol) * 1e9 ng/g = pmol * length_bp * 0.65 ng
DocumentedVolume(pmol, frag) ==
    Div(Mul(Mul(pmol, frag.length_bp), Dec(65, -2)), frag.concentration_ng_ul)

\* the picomole target of the fragment at position i of the current call
TargetPmol(i) ==
    IF call.fragments[i].is_vector THEN call.vector_pmol
    ELSE Mul(call.insert_molar_excess, call.vector_pmol)

\* The volume the name -> volume map ends with for `name`: that of the last
\* insert carrying the name, and the vector's if no insert carries it.
LastPosition(name) ==
    LET inserts == {i \in 1..Len(call.fragments) :
                      /\ ~call.fragments[i].is_vector
                      /\ call.fragments[i].name = name}
    IN  IF inserts = {} THEN CHOOSE i \in VectorPositions(call.fragments) : TRUE
        ELSE CHOOSE i \in inserts : \A j \in inserts : j <= i

RECURSIVE SumOverNames(_)
SumOverNames(names) ==
    IF names = {} THEN Zero
    ELSE LET name == CHOOSE x \in names : TRUE
             i == LastPosition(name)
         IN  Add(DocumentedVolume(TargetPmol(i), call.fragments[i]),
                 SumOverNames(names \ {name}))

CollapsedSum ==
    SumOverNames({call.fragments[i].name : i \in 1..Len(call.fragments)})

\* sum of the values of a returned name -> volume map
RECURSIVE SumOfMap(_, _)
SumOfMap(m, keys) ==
    IF keys = {} THEN Zero
    ELSE LET k == CHOOSE x \in keys : TRUE
         IN  Add(DictGet(m, k), SumOfMap(m, keys \ {k}))

\* C1: every returned result satisfies fragment volumes + master mix + water
\* = total reaction volume with water >= 0, and whenever total - master mix -
\* sum of the fragment_volumes values is negative the call fails with
\* InvalidConfiguration (ValueError) instead of returning.
C1_VolumeInvariant ==
    IsAssemblyCall =>
      /\ result.kind = "return" =>
           LET r == result.value
           IN  /\ Add(Add(SumOfMap(r.fragment_volumes, DictKeys(r.fragment_volumes)),
                          r.master_mix_volume), r.water_volume)
                    = r.total_reaction_volume
               /\ r.water_volume.n >= 0
               /\ r.total_reaction_volume = call.total_reaction_volume
      /\ ( /\ OneVector(call.fragments)
           /\ NonPositive(call.fragments) = {}
           /\ call.master_mix_concentration.n # 0
           /\ Sub(Sub(call.total_reaction_volume,
                      Div(call.total_reaction_volume, call.master_mix_concentration)),
                  CollapsedSum).n < 0 )
         => InvalidConfiguration(result)

\* A returned protocol for a vector and an insert that leaves no water at all.
C1_Witness ==
    /\ IsAssemblyCall
    /\ result.kind = "return"
    /\ Len(result.value.fragment_volumes) >= 2
    /\ result.value.water_volume = Zero

\* The worked example of the documentation.
ExampleCall ==
    [op |-> "compute_assembly_protocol",
     fragments |-> << Fragment("V", Dec(3000, 0), Dec(50, 0), TRUE),
                      Fragment("I", Dec(500, 0), Dec(20, 0), FALSE) >>,
     total_reaction_volume |-> Dec(10, 0),
     master_mix_concentration |-> Dec(2, 0),
     vector_pmol |-> Dec(2, -2),
     insert_molar_excess |-> Dec(2, 0)]

AbsNum(x) == IF IsNeg(x) THEN Neg(x) ELSE x

\* |x - y| <= 0.00005
About(x, y) == Le(AbsNum(Sub(x, y)), Dec(5, -5))

\* C2 as stated: the example returns master mix 5.0, vector 0.0078 uL,
\* insert 0.0065 uL and water about 4.9857 uL.
C2_Stated ==
    (pc = "done" /\ call = ExampleCall) =>
      /\ result.kind = "return"
      /\ result.value.master_mix_volume = Dec(5, 0)
      /\ About(DictGet(result.value.fragment_volumes, "V"), Dec(78, -4))
      /\ About(DictGet(result.value.fragment_volumes, "I"), Dec(65, -4))
      /\ About(result.value.water_volume, Dec(49857, -4))

\* C2 amended: the example returns master mix 5.0, vector 0.78 uL, insert
\* 0.65 uL and water 3.57 uL.
C2_Example ==
    (pc = "done" /\ call = ExampleCall) =>
      /\ result.kind = "return"
      /\ result.value.master_mix_volume = Dec(5, 0)
      /\ DictKeys(result.value.fragment_volumes) = {"V", "I"}
      /\ DictGet(result.value.fragment_volumes, "V") = Dec(78, -2)
      /\ DictGet(result.value.fragment_volumes, "I") = Dec(65, -2)
      /\ result.value.water_volume = Dec(357, -2)
      /\ result.value.total_reaction_volume = Dec(10, 0)

C2_Witness == pc = "done" /\ call = ExampleCall /\ result.kind = "return"

\* C3: whenever the number of fragments flagged as vector is not exactly one
\* (none, the empty list, two or more) the call fails with InvalidConfiguration
\* and the error is the vector-count error, whatever else is wrong with the input.
C3_VectorCountFirst ==
    (IsAssemblyCall /\ ~OneVector(call.fragments)) =>
      /\ InvalidConfiguration(result)
      /\ result.msg = "Exactly one fragment must be flagged as vector."

\* Two vectors, a non-positive concentration and a zero master mix concentration.
C3_Witness ==
    /\ IsAssemblyCall
    /\ Cardinality(VectorPositions(call.fragments)) = 2
    /\ NonPositive(call.fragments) # {}
    /\ call.master_mix_concentration = Zero
    /\ InvalidConfiguration(result)

\* the fragment the concentration error has to name
FirstNonPositive(fragments) ==
    IF TheVector(fragments).concentration_ng_ul.n <= 0 THEN TheVector(fragments)
    ELSE fragments[CHOOSE i \in NonPositive(fragments) :
                      \A j \in NonPositive(fragments) : i <= j]

ConcentrationMessages ==
    {"Vector concentration must be > 0 ng/uL for ",
     "Insert concentration must be > 0 ng/uL for "}

\* C4: with exactly one vector and some fragment of concentration <= 0 the
\* call fails with InvalidConfiguration and the error names the vector if the
\* vector's concentration is <= 0 and otherwise the first insert in input
\* order whose concentration is <= 0, also when the volumes exceed the total.
C4_ConcentrationError ==
    (IsAssemblyCall /\ OneVector(call.fragments) /\ NonPositive(call.fragments) # {}) =>
      /\ InvalidConfiguration(result)
      /\ result.msg \in ConcentrationMessages
      /\ result.arg = FirstNonPositive(call.fragments).name
      /\ (result.msg = "Vector concentration must be > 0 ng/uL for "
            <=> TheVector(call.fragments).concentration_ng_ul.n <= 0)

\* A good vector whose volume alone exceeds the reaction volume, followed by
\* two inserts of different names with non-positive concentrations.
C4_Witness ==
    /\ IsAssemblyCall
    /\ OneVector(call.fragments)
    /\ TheVector(call.fragments).concentration_ng_ul.n > 0
    /\ Lt(call.total_reaction_volume,
          DocumentedVolume(call.vector_pmol, TheVector(call.fragments)))
    /\ \E i, j \in NonPositive(call.fragments) :
          call.fragments[i].name # call.fragments[j].name
    /\ InvalidConfiguration(result)

\* C5: in a returned result for pairwise distinct names the map holds exactly
\* the fragments' names, the vector's volume is vector_pmol * 1e-12 *
\* (length_bp * 650) * 1e9 / concentration and every insert's volume is the
\* same with the target insert_molar_excess * vector_pmol.
C5_Volumes ==
    (IsAssemblyCall /\ result.kind = "return" /\ DistinctNames(call.fragments)) =>
      /\ DictKeys(result.value.fragment_volumes)
           = {call.fragments[i].name : i \in 1..Len(call.fragments)}
      /\ Len(result.value.fragment_volumes) = Len(call.fragments)
      /\ \A i \in 1..Len(call.fragments) :
            DictGet(result.value.fragment_volumes, call.fragments[i].name)
              = DocumentedVolume(TargetPmol(i), call.fragments[i])

\* A returned protocol for a vector and two inserts of different lengths.
C5_Witness ==
    /\ IsAssemblyCall
    /\ result.kind = "return"
    /\ DistinctNames(call.fragments)
    /\ Len(call.fragments) = 3
    /\ \E i, j \in 1..3 :
          /\ ~call.fragments[i].is_vector
          /\ ~call.fragments[j].is_vector
          /\ call.fragments[i].length_bp # call.fragments[j].length_bp

(***************************************************************************)
(* Properties of the molarity converter.                                   *)
(***************************************************************************)
IsCall(op) == pc = "done" /\ call.op = op

\* C6: for positive mw, M and V, calculate_molarity(mw, calculate_mass(mw, M,
\* V), V) returns M and calculate_volume(mw, calculate_mass(mw, M, V), M)
\* returns V.
C6_RoundTrip ==
    ( /\ IsCall("calculate_mass")
      /\ IsPos(call.molecular_weight)
      /\ IsPos(call.concentration_m)
      /\ IsPos(call.volume_l) ) =>
      /\ result.kind = "return"
      /\ calculate_molarity(call.molecular_weight, result.value, call.volume_l)
           = Return(call.concentration_m)
      /\ calculate_volume(call.molecular_weight, result.value, call.concentration_m)
           = Return(call.volume_l)

\* A mass computed from three positive arguments, none of them 1, all different.
C6_Witness ==
    /\ IsCall("calculate_mass")
    /\ IsPos(call.molecular_weight)
    /\ IsPos(call.concentration_m)
    /\ IsPos(call.volume_l)
    /\ Cardinality({call.molecular_weight, call.concentration_m, call.volume_l}) = 3
    /\ result.kind = "return"
    /\ IsPos(result.value)

\* mass_g / (mw * divisor), written as two successive quotients
Quotient(mass_g, mw, divisor) == Div(Div(mass_g, mw), divisor)

Unclamped == Mul(Div(Sub(call.abs_val, call.intercept), call.slope),
                 call.dilution_factor)

\* C8 as stated: for every non-zero slope the result is 0 when absorbance <
\* intercept and ((absorbance - intercept) / slope) * dilution_factor otherwise.
C8_Stated ==
    (IsCall("compute_sample_concentration") /\ call.slope.n # 0) =>
      IF Lt(call.abs_val, call.intercept)
      THEN result = Return(Zero)
      ELSE result = Return(Unclamped)

\* C8 amended: for every positive slope the result is 0 when absorbance <
\* intercept and ((absorbance - intercept) / slope) * dilution_factor otherwise.
C8_ClampPositiveSlope ==
    (IsCall("compute_sample_concentration") /\ call.slope.n > 0) =>
      IF Lt(call.abs_val, call.intercept)
      THEN result = Return(Zero)
      ELSE result = Return(Unclamped)

\* An absorbance below the intercept on a rising curve, scaled by a non-zero
\* dilution factor.
C8_Witness ==
    /\ IsCall("compute_sample_concentration")
    /\ call.slope.n > 0
    /\ Lt(call.abs_val, call.intercept)
    /\ call.dilution_factor.n # 0
    /\ result = Return(Zero)

IsBlank(line) == line.tokens = 0

RECURSIVE DropBlankHead(_)
DropBlankHead(lines) ==
    IF lines # <<>> /\ IsBlank(Head(lines)) THEN DropBlankHead(Tail(lines)) ELSE lines

RECURSIVE DropBlankTail(_)
DropBlankTail(lines) ==
    IF lines # <<>> /\ IsBlank(lines[Len(lines)])
    THEN DropBlankTail(SubSeq(lines, 1, Len(lines) - 1))
    ELSE lines

\* the lines of the paste once leading and trailing white space is trimmed
TrimmedLines == DropBlankTail(DropBlankHead(call.pasted))

WellFormed(line) == line.tokens >= 2 /\ line.numeric1 /\ line.numeric2

\* C9: the parse fails with ParseError (ValueError) iff the trimmed text has
\* fewer than 9 lines or one of its first 9 lines lacks two tokens or has a
\* non-numeric first or second token; nothing after the 9th line or after the
\* 2nd token matters, and a blank line among the first 9 fails the parse.
C9_ParseFailsIff ==
    IsCall("parse_standard_duplicates") =>
      /\ result.kind \in {"return", "ValueError"}
      /\ result.kind = "ValueError"
           <=> \/ Len(TrimmedLines) < 9
               \/ \E i \in 1..9 : ~WellFormed(TrimmedLines[i])

\* A successful parse of more than 9 lines with a third token on one of the
\* first 9 lines and a malformed line after the 9th.
C9_Witness ==
    /\ IsCall("parse_standard_duplicates")
    /\ Len(TrimmedLines) > 9
    /\ \E i \in 1..9 : TrimmedLines[i].tokens = 3
    /\ ~WellFormed(TrimmedLines[10])
    /\ result.kind = "return"

\* the fixed ladder of the documentation, mg/mL
Ladder ==
    << Dec(200, -2), Dec(150, -2), Dec(100, -2), Dec(75, -2), Dec(50, -2),
       Dec(25, -2), Dec(125, -3), Dec(25, -3), Dec(0, 0) >>

\* C10: a successful parse returns exactly 9 rows whatever the number of
\* lines; row i carries the i-th ladder value, the first two tokens of line i
\* as rep1 and rep2, and abs_mean = (rep1 + rep2) / 2.
C10_NineLadderRows ==
    (IsCall("parse_standard_duplicates") /\ result.kind = "return") =>
      /\ Len(result.value) = 9
      /\ \A i \in 1..9 :
            /\ result.value[i].conc_mg_mL = Ladder[i]
            /\ result.value[i].abs_rep1 = TrimmedLines[i].rep1
            /\ result.value[i].abs_rep2 = TrimmedLines[i].rep2
            /\ result.value[i].abs_mean
                 = Mul(Add(TrimmedLines[i].rep1, TrimmedLines[i].rep2), Dec(5, -1))

\* A successful parse of more than 9 lines, one of the first 9 holding a
\* negative replicate and another one tab-separated replicates.
C10_Witness ==
    /\ IsCall("parse_standard_duplicates")
    /\ result.kind = "return"
    /\ Len(TrimmedLines) > 9
    /\ \E i, j \in 1..9 :
          /\ result.value[i].abs_rep1.n < 0
          /\ \E k \in 1..Len(TrimmedLines[j].text) : TrimmedLines[j].text[k] = "\t"

\* the 9 rows lie on the fixed ladder and on absorbance = a * concentration + b
OnLine(standard_df, a, b) ==
    /\ Len(standard_df) = 9
    /\ \A i \in 1..9 :
          /\ standard_df[i].conc_mg_mL = Ladder[i]
          /\ standard_df[i].abs_mean = Add(Mul(a, Ladder[i]), b)

\* C11: for a 9-point curve on the fixed ladder whose mean absorbances lie
\* exactly on absorbance = a * concentration + b the regression returns
\* slope = a and intercept = b, in that order.
C11_ExactLine ==
    IsCall("compute_standard_regression") =>
      \A a \in LineSlopes, b \in LineIntercepts :
         OnLine(call.standard_df, a, b) => result = Return(<<a, b>>)

\* The curve absorbance = 0.5 * concentration + 0.05 of the documentation.
C11_Witness ==
    /\ IsCall("compute_standard_regression")
    /\ OnLine(call.standard_df, Dec(5, -1), Dec(5, -2))
    /\ result = Return(<<Dec(5, -1), Dec(5, -2)>>)

Names == {call.fragments[i].name : i \in 1..Len(call.fragments)}

\* the last position in input order of a fragment called `name`
LastInInputOrder(name) ==
    LET carriers == {i \in 1..Len(call.fragments) : call.fragments[i].name = name}
    IN  CHOOSE i \in carriers : \A j \in carriers : j <= i

RECURSIVE SumOverPositions(_)
SumOverPositions(positions) ==
    IF positions = {} THEN Zero
    ELSE LET i == CHOOSE x \in positions : TRUE
         IN  Add(DocumentedVolume(TargetPmol(i), call.fragments[i]),
                 SumOverPositions(positions \ {i}))

\* the volumes of all the fragments of the call, duplicates included
AllFragmentsSum == SumOverPositions(1..Len(call.fragments))

\* total_reaction_volume - master_mix_volume
RemainingVolume ==
    Sub(call.total_reaction_volume,
        Div(call.total_reaction_volume, call.master_mix_concentration))

\* one vector, every concentration > 0, a master mix concentration that divides
ValidAssemblyCall ==
    /\ IsAssemblyCall
    /\ OneVector(call.fragments)
    /\ NonPositive(call.fragments) = {}
    /\ call.master_mix_concentration.n # 0

\* fragment_volumes has one entry per distinct name, holding the volume of the
\* fragment at position Position(name); water is what the sum of these leaves
MapCollapsedBy(Position(_)) ==
    LET r == result.value
    IN  /\ DictKeys(r.fragment_volumes) = Names
        /\ Len(r.fragment_volumes) = Cardinality(Names)
        /\ \A name \in Names :
              DictGet(r.fragment_volumes, name)
                = DocumentedVolume(TargetPmol(Position(name)),
                                   call.fragments[Position(name)])
        /\ r.water_volume = Sub(RemainingVolume, CollapsedSum)

\* C14 (as stated): with one vector and all concentrations > 0,
\* fragment_volumes holds one entry per distinct name whose value is the volume
\* of the last fragment in input order carrying that name; water and the
\* feasibility check are computed from the collapsed sum.
C14_Stated ==
    ValidAssemblyCall =>
      /\ result.kind = "return" <=> Sub(RemainingVolume, CollapsedSum).n >= 0
      /\ result.kind = "return" => MapCollapsedBy(LastInInputOrder)

\* C14 (amended): duplicate names are not rejected; with one vector and all
\* concentrations > 0, fragment_volumes holds one entry per distinct name whose
\* value is the volume of the last insert in input order carrying that name, or
\* the vector's volume if no insert carries it (the vector's entry is written
\* first, whatever the vector's position); water and the feasibility check are
\* computed from the collapsed sum: the call returns exactly when total -
\* master mix - collapsed sum >= 0 and fails with InvalidConfiguration otherwise.
C14_LastWriteWins ==
    ValidAssemblyCall =>
      /\ result.kind = "return" <=> Sub(RemainingVolume, CollapsedSum).n >= 0
      /\ result.kind # "return" => InvalidConfiguration(result)
      /\ result.kind = "return" => MapCollapsedBy(LastPosition)

\* A call that returns although the volumes of all its fragments together
\* exceed the remaining volume: two inserts share a name and count once.
C14_Witness ==
    /\ ValidAssemblyCall
    /\ ~DistinctNames(call.fragments)
    /\ result.kind = "return"
    /\ Sub(RemainingVolume, AllFragmentsSum).n < 0
    /\ \E i \in 1..Len(call.fragments) :
          ~call.fragments[i].is_vector /\ LastPosition(call.fragments[i].name) # i

\* C15 (as stated): every failure of compute_assembly_protocol is an
\* InvalidConfiguration (ValueError), for any inputs, a master mix
\* concentration of 0 included; it never raises another kind of error.
C15_Stated ==
    IsAssemblyCall => result.kind \in {"return", "ValueError"}

(***************************************************************************)
(* Properties of the pages.                                                *)
(***************************************************************************)
IsPageRun ==
    /\ pc = "done"
    /\ call.op \in {"show_molarity_calculator", "show_gibson_assembly_calculator",
                    "show_bca_protein_calculator"}

\* C12: for every combination of inputs the widgets allow, a run of the
\* Molarity, Gibson Assembly or BCA page with its compute button pressed ends
\* in a displayed result or a displayed error message, and no exception of a
\* core calculation leaves the page function uncaught.
C12_Stated ==
    IsPageRun =>
      /\ result.uncaught = NoException
      /\ \E i \in 1..Len(result.shown) :
            result.shown[i].level \in {"st.success", "st.error"}

(***************************************************************************)
(* Properties of concurrent calls.                                         *)
(***************************************************************************)
\* the outcome the arguments of a finished call determine
OutcomeOfArguments(frame) ==
    IF frame.op = "compute_assembly_protocol"
    THEN compute_assembly_protocol(frame.args_at_call, frame.total_reaction_volume,
                                   frame.master_mix_concentration,
                                   frame.vector_pmol, frame.insert_molar_excess)
    ELSE IF frame.op = "parse_standard_duplicates"
    THEN parse_standard_duplicates(frame.raw_text)
    ELSE IF frame.op = "calculate_molarity"
    THEN calculate_molarity(frame.args[1], frame.args[2], frame.args[3])
    ELSE compute_sample_concentration(frame.args[1], frame.args[2],
                                      frame.args[3], frame.args[4])

\* C13: under any interleaving of concurrent or successive calls, the outcome
\* (result or error) of each call is the one its own arguments determine, and
\* no call, whether it succeeds or fails, modifies the fragment list or the
\* Fragment records passed to it or the module-level ladder
\* STANDARD_CONCENTRATIONS.
C13_NoRetainedState ==
    /\ ladder = STANDARD_CONCENTRATIONS
    /\ \A p \in Procs :
          /\ (frames[p].pc # "idle" /\ frames[p].op = "compute_assembly_protocol")
                => heap[frames[p].fragments].val = frames[p].args_at_call
          /\ frames[p].pc = "done" => frames[p].outcome = OutcomeOfArguments(frames[p])

\* Two calls passed the same list have both finished, one with a result and
\* one with an error, while the list is as the caller built it.
C13_Witness ==
    /\ frames["p1"].pc = "done" /\ frames["p2"].pc = "done"
    /\ frames["p1"].op = "compute_assembly_protocol"
    /\ frames["p2"].op = "compute_assembly_protocol"
    /\ frames["p1"].fragments = frames["p2"].fragments
    /\ frames["p1"].outcome.kind = "return"
    /\ frames["p2"].outcome.kind = "ValueError"
    /\ Len(heap[frames["p1"].fragments].val) = 2

====
